---------------------------- MODULE Spec2Model ----------------------------
(***************************************************************************)
(* A model of the AI Text Processor page (src/app/page.tsx): the retry     *)
(* policy, the conversation handlers (handleSend, handleTextProcess,       *)
(* detectLanguage) and the two initialization effects.                     *)
(*                                                                         *)
(* A step of the model is the synchronous code between two awaits of the   *)
(* source (React state updates included), which runs atomically.           *)
(* The host (window.ai, navigator.onLine, Date.now, window.confirm) is the *)
(* environment: its answers are nondeterministic choices.                  *)
(***************************************************************************)
EXTENDS Integers, Sequences, FiniteSets, TLC

VARIABLES
    \* React state of Home()
    messages, isProcessing, error, targetLanguage, inputText,
    summarizer, apiAvailability, downloadStatus,
    \* host environment
    online, now, host,
    \* asynchronous handler invocations in flight
    tasks, nextTid,
    \* a stand-alone call of retryOperation
    rt,
    \* the two initialization effects, and whether the summarizer's monitor
    \* has registered the window 'offline' / 'online' listeners
    sumInit, trInit, netListeners,
    \* history of host calls (observation only, never read by the handlers)
    creates, translations

uiVars   == <<messages, isProcessing, error, targetLanguage, inputText,
              summarizer, apiAvailability, downloadStatus>>
envVars  == <<online, now, host>>
taskVars == <<tasks, nextTid>>
initVars == <<sumInit, trInit, netListeners>>
obsVars  == <<creates, translations>>
vars     == <<uiVars, envVars, taskVars, rt, initVars, obsVars>>

(***************************************************************************)
(* Bounds of the model.                                                    *)
(***************************************************************************)
\* handler invocations (submits and actions) started in one behaviour
MaxOps == 3
\* largest value Date.now() takes
MaxClock == 2
\* largest maxRetries tried in the stand-alone retryOperation call
MaxRetriesBound == 4
\* size of a model download, in downloadprogress units
MaxBytes == 2

(***************************************************************************)
(* Program constants.                                                      *)
(***************************************************************************)
\* inputText.length > 150
SummarizeThreshold == 150
\* retryOperation(..., 3, 5000)
MaxRetries == 3

(***************************************************************************)
(* retryOperation (page.tsx 117-136).  r is the state of one call:         *)
(*   max        maxRetries                                                 *)
(*   i          the loop counter                                           *)
(*   pc         "attempt" | "delay" | "returned" | "thrown"                *)
(*   lastError  the error kept for the final throw ("null" when none)      *)
(*   result     the value returned ("none" before the return)              *)
(*   waits      number of delay(delayMs) waits completed or begun          *)
(***************************************************************************)
NoError == "null"
NoValue == "none"

\* for (let i = 0; i < maxRetries; i++) ... throw lastError
RetryLoop(r) ==
    IF r.i < r.max THEN [r EXCEPT !.pc = "attempt"]
                   ELSE [r EXCEPT !.pc = "thrown"]

\* let lastError = null; enter the loop
RetryStart(max) ==
    RetryLoop([max |-> max, i |-> 0, pc |-> "attempt", lastError |-> NoError,
               result |-> NoValue, waits |-> 0])

\* return await operation()
RetryOk(r, v) == [r EXCEPT !.pc = "returned", !.result = v]

\* mutant: no wait between attempts
RetryFailNoDelay(r, e) ==
    RetryLoop([r EXCEPT !.lastError = e, !.i = r.i + 1])

\* mutant: the error of the first failure is the one kept
RetryFailKeepFirst(r, e) ==
    LET first == IF r.lastError = NoError THEN e ELSE r.lastError
    IN IF r.i < r.max - 1
       THEN [r EXCEPT !.lastError = first, !.pc = "delay", !.waits = r.waits + 1]
       ELSE RetryLoop([r EXCEPT !.lastError = first, !.i = r.i + 1])

\* mutant: a wait follows the last attempt too
RetryFailAlwaysDelay(r, e) ==
    [r EXCEPT !.lastError = e, !.pc = "delay", !.waits = r.waits + 1]

\* catch (error) { lastError = ...; if (i < maxRetries - 1) await delay(delayMs) }
RetryFail(r, e) ==
    IF r.i < r.max - 1
    THEN [r EXCEPT !.lastError = e, !.pc = "delay", !.waits = r.waits + 1]
    ELSE RetryLoop([r EXCEPT !.lastError = e, !.i = r.i + 1])

\* the delay elapsed: i++ and the loop test
RetryWaited(r) == RetryLoop([r EXCEPT !.i = r.i + 1])

(***************************************************************************)
(* A stand-alone call retryOperation(op, max, delayMs): op's outcomes are  *)
(* chosen by the environment; rt.hist is op's own record of its calls.     *)
(***************************************************************************)
Errors == {"e1", "e2"}
Values == {"v1", "v2"}
RtIdle == [r |-> RetryStart(0), hist |-> <<>>, on |-> FALSE]
notRt == <<uiVars, envVars, taskVars, initVars, obsVars>>

RtCall(max) ==
    /\ ~rt.on
    /\ rt' = [r |-> RetryStart(max), hist |-> <<>>, on |-> TRUE]
    /\ UNCHANGED notRt

RtAttemptOk(v) ==
    /\ rt.on /\ rt.r.pc = "attempt"
    /\ rt' = [rt EXCEPT !.r = RetryOk(rt.r, v),
                        !.hist = Append(rt.hist, [ok |-> TRUE, x |-> v])]
    /\ UNCHANGED notRt

RtAttemptFail(e) ==
    /\ rt.on /\ rt.r.pc = "attempt"
    /\ rt' = [rt EXCEPT !.r = RetryFail(rt.r, e),
                        !.hist = Append(rt.hist, [ok |-> FALSE, x |-> e])]
    /\ UNCHANGED notRt

RtDelay ==
    /\ rt.on /\ rt.r.pc = "delay"
    /\ rt' = [rt EXCEPT !.r = RetryWaited(rt.r)]
    /\ UNCHANGED notRt


(***************************************************************************)
(* Data of the conversation.                                               *)
(*                                                                         *)
(* An id is [base, sfx]: base is the Date.now() value of the submit (0 for *)
(* 'welcome') and sfx the list of '-output' / '-translated' /              *)
(* '-summarized' suffixes that follow it.                                  *)
(*                                                                         *)
(* A text is [base, ops, len, marks]: base names the typed text it comes   *)
(* from (the serial of the submit, 0 for the welcome text), ops the host   *)
(* calls that produced it from that text (each call yields a text of its   *)
(* own), len its length and marks the number of '**' markers in it.        *)
(***************************************************************************)
Id(base, sfx) == [base |-> base, sfx |-> sfx]
NoId == Id(-1, <<>>)
WelcomeId == Id(0, <<>>)

Text(base, ops, len, marks) == [base |-> base, ops |-> ops, len |-> len, marks |-> marks]
NoText == Text(-1, <<>>, 0, 0)
\* the length of the welcome text
WelcomeLen == 268
WelcomeText == Text(0, <<>>, WelcomeLen, 0)

NoLang == "none"
Null == <<>>

Msg(id, text, type, det, show, orig) ==
    [id |-> id, text |-> text, type |-> type, detectedLanguage |-> det,
     showSummarize |-> show, originalText |-> orig]
NoMsg == Msg(NoId, NoText, "none", NoLang, FALSE, NoText)

\* useState<Message[]>([{ id: 'welcome', ..., type: 'output' }])
WelcomeMsg == Msg(WelcomeId, WelcomeText, "output", NoLang, FALSE, NoText)

\* languages the user can select (a part of LANGUAGES)
Targets == {"en", "es"}
\* const sourceLanguages = ['en', 'es', 'fr', 'de', 'it']
sourceLanguages == <<"en", "es", "fr", "de", "it">>
\* codes the detector answers
DetCodes == {"en", "es"}
Avail == {"no", "readily", "after-download"}
HostError == "host failure"

\* lengths of the texts the user types: at the threshold and just above it
InputLens == {SummarizeThreshold, SummarizeThreshold + 1}
\* what the textarea can hold: '', whitespace only, or a text
InputTexts == {[len |-> 1, blank |-> TRUE]}
                \cup {[len |-> n, blank |-> FALSE] : n \in InputLens}
EmptyInput == [len |-> 0, blank |-> TRUE]

Min(S) == CHOOSE x \in S : \A y \in S : x <= y

\* messages.find(m => m.id === id)
Positions(msgs, id) == {i \in 1..Len(msgs) : msgs[i].id = id}
Find(msgs, id) ==
    IF Positions(msgs, id) = {} THEN NoMsg ELSE msgs[Min(Positions(msgs, id))]

Filter(msgs, id) == SelectSeq(msgs, LAMBDA m : m.id # id)

\* messageId.endsWith('-translated')
EndsWithTranslated(id) ==
    Len(id.sfx) > 0 /\ id.sfx[Len(id.sfx)] = "translated"

\* s.replace('-translated', ''): the first occurrence is removed
RECURSIVE RemoveFirst(_, _)
RemoveFirst(s, x) ==
    IF s = <<>> THEN <<>>
    ELSE IF Head(s) = x THEN Tail(s)
    ELSE <<Head(s)>> \o RemoveFirst(Tail(s), x)

\* const originalMessageId = messageId.endsWith('-translated') ? ... : messageId
OriginalMessageId(messageId) ==
    IF EndsWithTranslated(messageId)
    THEN Id(messageId.base, RemoveFirst(messageId.sfx, "translated"))
    ELSE messageId

\* mutant: the text of the clicked message is processed
TextOfClicked(msgs, messageId) == Find(msgs, messageId).text

\* const textToProcess = originalMessage ? originalMessage.text : message.text
TextToProcess(msgs, messageId) ==
    IF Positions(msgs, OriginalMessageId(messageId)) # {}
    THEN Find(msgs, OriginalMessageId(messageId)).text
    ELSE Find(msgs, messageId).text

\* mutant: the threshold itself qualifies
ShowSummarizeAtThreshold(code, len) == code = "en" /\ len >= SummarizeThreshold

\* detectedLanguage.code === 'en' && text.length > 150
ShowSummarize(code, len) == code = "en" /\ len > SummarizeThreshold

\* mutant: a summary is offered for summarizing like any other output
SummaryShownLikeOutput(code, len) == ShowSummarize(code, len)

\* showSummarize: false, on the message a summarize appends (page.tsx 693),
\* whatever the detected code and the length of the summary
SummaryShowSummarize(code, len) == FALSE

\* mutant: the translated message is appended, nothing is removed
AppendOnly(prev, newMessage) == Append(prev, newMessage)

\* mutant: an existing translation is kept
KeepExisting(prev, newMessage) ==
    IF Positions(prev, newMessage.id) # {} THEN prev ELSE Append(prev, newMessage)

\* mutant: the translated message takes the place of the one it replaces
ReplaceInPlace(prev, newMessage) ==
    IF Positions(prev, newMessage.id) # {}
    THEN [i \in 1..Len(prev) |->
             IF prev[i].id = newMessage.id THEN newMessage ELSE prev[i]]
    ELSE Append(prev, newMessage)

\* setMessages(prev => [...prev.filter(m => m.id !== newMessage.id), newMessage])
ReplaceTranslated(prev, newMessage) == Append(Filter(prev, newMessage.id), newMessage)

\* mutant: appending a derived message drops the other messages derived from
\* the same source
AppendDroppingSiblings(prev, newMessage) ==
    Append(SelectSeq(prev, LAMBDA m : ~(/\ m.id.base = newMessage.id.base
                                        /\ m.id.sfx # <<>>
                                        /\ newMessage.id.sfx # <<>>
                                        /\ m.id # newMessage.id)),
           newMessage)

\* mutant: the new message is put at the head of the log
PrependMessage(prev, newMessage) == <<newMessage>> \o prev

\* setMessages(prev => [...prev, newMessage])
AppendMessage(prev, newMessage) == Append(prev, newMessage)

\* mutant: the busy flag is not raised
BusyUnchanged(prev, type) == prev

\* setIsProcessing(prev => ({ ...prev, [type]: true }))
SetBusy(prev, type) == [prev EXCEPT ![type] = TRUE]

\* mutant: the busy flag is not lowered
BusyLeftSet(prev, type) == prev

\* setIsProcessing(prev => ({ ...prev, [type]: false }))
ClearBusy(prev, type) == [prev EXCEPT ![type] = FALSE]

BoldMarker == <<"*", "*">>
\* the length of the summaries the host returns: past the threshold of
\* showSummarize even once a bold marker is removed
SummaryLen == SummarizeThreshold + Len(BoldMarker) + 1
\* cleanMarkdownFormatting: the markers are removed from the text
cleanMarkdownFormatting(text) ==
    [text EXCEPT !.len = text.len - text.marks * Len(BoldMarker), !.marks = 0]

(***************************************************************************)
(* Handler invocations in flight.  A task holds what the closure of the    *)
(* handler captured when it started and the host call it is suspended at:  *)
(*   detect       detectLanguage: create() then detect()                   *)
(*   trProbe      capabilities() and the languagePairAvailable probes      *)
(*   trCreate     translator.create() and the instance's ready; avail is   *)
(*                what the host answered for the pair being created        *)
(*   trTranslate  translatorInstance.translate()                           *)
(*   sumCall      summarizer.summarize(), inside retryOperation            *)
(*   sumDelay     delay(delayMs), inside retryOperation                    *)
(* Consecutive awaits of host calls that read and write nothing but the    *)
(* handler's own locals are one step: what the host answers to all of them *)
(* is chosen when the last of them resolves.                               *)
(***************************************************************************)
OfflineMessage == <<"You are currently offline. Please check your internet connection.">>
EmptyMessage == <<"Please enter some text to process">>
NetworkLost == "Network connection lost"

Task(tid, kind, pc, msgId, origId, text, msgText, target) ==
    [tid |-> tid, kind |-> kind, pc |-> pc, msgId |-> msgId, origId |-> origId,
     text |-> text, msgText |-> msgText, target |-> target,
     auto |-> "none", pairs |-> <<>>, src |-> "none", avail |-> "none",
     r |-> RetryStart(MaxRetries), out |-> NoText]

Replace(t, t2) == (tasks \ {t}) \cup {t2}
InFlight(kind) == {t \in tasks : t.kind = kind}

(***************************************************************************)
(* The environment and the controls.                                       *)
(***************************************************************************)
DownloadPaused == <<"Network connection lost. Download paused.">>

\* navigator.onLine turns false and window fires 'offline': the listener the
\* summarizer's monitor registered (page.tsx 301-303) is never removed
GoOffline ==
    /\ online /\ online' = FALSE
    /\ error' = IF netListeners THEN DownloadPaused ELSE error
    /\ UNCHANGED <<messages, isProcessing, targetLanguage, inputText, summarizer,
                   apiAvailability, downloadStatus>>
    /\ UNCHANGED <<now, host, taskVars, rt, initVars, obsVars>>

\* navigator.onLine turns true and window fires 'online' (page.tsx 305-307)
GoOnline ==
    /\ ~online /\ online' = TRUE
    /\ error' = IF netListeners THEN Null ELSE error
    /\ UNCHANGED <<messages, isProcessing, targetLanguage, inputText, summarizer,
                   apiAvailability, downloadStatus>>
    /\ UNCHANGED <<now, host, taskVars, rt, initVars, obsVars>>

\* Textarea onChange: setInputText(e.target.value); setError(null)
TypeText(s) ==
    /\ s # inputText
    /\ inputText' = s /\ error' = Null
    /\ UNCHANGED <<messages, isProcessing, targetLanguage, summarizer,
                   apiAvailability, downloadStatus>>
    /\ UNCHANGED <<envVars, taskVars, rt, initVars, obsVars>>

\* Select onValueChange={setTargetLanguage}
SelectTarget(l) ==
    /\ l # targetLanguage
    /\ targetLanguage' = l
    /\ UNCHANGED <<messages, isProcessing, error, inputText, summarizer,
                   apiAvailability, downloadStatus>>
    /\ UNCHANGED <<envVars, taskVars, rt, initVars, obsVars>>

(***************************************************************************)
(* The end of a handler: the code after its last await.  A continuation    *)
(* sets messages, isProcessing, error, tasks and translations;             *)
(* restVars is what no continuation writes.                                *)
(***************************************************************************)
restVars == <<targetLanguage, inputText, summarizer, apiAvailability,
              downloadStatus, envVars, nextTid, rt, initVars, creates>>

Derived(id, tag) == Id(id.base, Append(id.sfx, tag))

\* the record of a completed translate: the message clicked, the id and the
\* text of the message it put in the log
Remember(t) ==
    Append(translations,
           [from |-> t.msgId, id |-> Derived(t.origId, "translated"), text |-> t.out])

\* handleSend after detectLanguage (page.tsx 512-521); old is the task as it
\* stands in tasks, t the task with what the last step added
FinishSend(old, t, det) ==
    /\ messages' =
          IF det # NoLang
          THEN AppendMessage(messages,
                   Msg(Derived(t.msgId, "output"), t.text, "output", det,
                       ShowSummarize(det, t.text.len), NoText))
          ELSE messages
    /\ tasks' = tasks \ {old}
    /\ UNCHANGED <<isProcessing, error, translations>>

\* handleTextProcess, translate, after detectLanguage (page.tsx 607-621, 649-663)
FinishTranslate(old, t, det) ==
    /\ messages' = ReplaceTranslated(messages,
                       Msg(Derived(t.origId, "translated"), t.out, "output", det,
                           ShowSummarize(det, t.out.len), t.text))
    /\ isProcessing' = ClearBusy(isProcessing, "translate")
    /\ translations' = Remember(t)
    /\ tasks' = tasks \ {old}
    /\ UNCHANGED error

\* handleTextProcess, summarize, after detectLanguage (page.tsx 687-695)
FinishSummarize(old, t, det) ==
    /\ messages' = AppendMessage(messages,
                       Msg(Derived(t.origId, "summarized"), t.out, "output", det,
                           SummaryShowSummarize(det, t.out.len), NoText))
    /\ isProcessing' = ClearBusy(isProcessing, "summarize")
    /\ tasks' = tasks \ {old}
    /\ UNCHANGED <<error, translations>>

Finish(old, t, det) ==
    CASE t.kind = "send" -> FinishSend(old, t, det)
      [] t.kind = "translate" -> FinishTranslate(old, t, det)
      [] t.kind = "summarize" -> FinishSummarize(old, t, det)

\* detectLanguage(text) is called: without window.ai.languageDetector it
\* answers undefined at once, otherwise create() is issued
Detect(old, t) ==
    IF host.detectorApi
    THEN /\ tasks' = Replace(old, [t EXCEPT !.pc = "detect"])
         /\ UNCHANGED <<messages, isProcessing, error, translations>>
    ELSE Finish(old, t, NoLang)

\* mutant: a failure ends every action in flight
FailAll(t, msg) ==
    /\ error' = msg
    /\ isProcessing' = [k \in DOMAIN isProcessing |-> FALSE]
    /\ tasks' = {u \in tasks : u.kind = "send"}
    /\ UNCHANGED <<messages, translations>>

\* catch (err) { setError(err.message) } finally { setIsProcessing(... false) }
Fail(t, msg) ==
    /\ error' = msg
    /\ isProcessing' = ClearBusy(isProcessing, t.kind)
    /\ tasks' = tasks \ {t}
    /\ UNCHANGED <<messages, translations>>

\* mutant: the rejected text is cleared from the textarea
handleSendEmptyClears ==
    /\ inputText.blank
    /\ error' = EmptyMessage
    /\ inputText' = EmptyInput
    /\ UNCHANGED <<messages, isProcessing, targetLanguage, summarizer,
                   apiAvailability, downloadStatus>>
    /\ UNCHANGED <<envVars, taskVars, rt, initVars, obsVars>>

(***************************************************************************)
(* handleSend (page.tsx 493-522) up to its first await.                    *)
(***************************************************************************)
\* if (!inputText.trim()) { setError(...); return; }
handleSendEmpty ==
    /\ inputText.blank
    /\ error' = EmptyMessage
    /\ UNCHANGED <<messages, isProcessing, targetLanguage, inputText, summarizer,
                   apiAvailability, downloadStatus>>
    /\ UNCHANGED <<envVars, taskVars, rt, initVars, obsVars>>

\* Date.now() answers n, not less than its last answer
handleSend(n) ==
    /\ ~inputText.blank
    /\ nextTid <= MaxOps
    /\ n >= now /\ now' = n
    /\ LET messageId == Id(n, <<>>)
           text == Text(nextTid, <<>>, inputText.len, 0)
           t == Task(nextTid, "send", "detect", messageId, messageId, text, text,
                     targetLanguage)
       IN /\ messages' = AppendMessage(messages,
                             Msg(messageId, text, "input", NoLang, FALSE, NoText))
          /\ tasks' = IF host.detectorApi THEN tasks \cup {t} ELSE tasks
    /\ inputText' = EmptyInput
    /\ error' = Null
    /\ nextTid' = nextTid + 1
    /\ UNCHANGED <<isProcessing, targetLanguage, summarizer, apiAvailability,
                   downloadStatus>>
    /\ UNCHANGED <<online, host, rt, initVars, obsVars>>

(***************************************************************************)
(* detectLanguage (page.tsx 471-491): create() and detect() answered.  det *)
(* is results[0].detectedLanguage, or NoLang when create or detect rejects *)
(* or detect answers no result (undefined is returned).                    *)
(***************************************************************************)
DetectResult(t, det) ==
    /\ t \in tasks /\ t.pc = "detect"
    /\ Finish(t, t, det)
    /\ UNCHANGED restVars

(***************************************************************************)
(* handleTextProcess (page.tsx 531-709) up to its first await.  The button *)
(* of the message at position p is clicked: it is rendered for output      *)
(* messages, Summarize only with showSummarize, and disabled while         *)
(* isProcessing[type] (page.tsx 806-837).                                  *)
(***************************************************************************)
Clickable(type, p) ==
    /\ p \in 1..Len(messages)
    /\ messages[p].type = "output"
    /\ type = "summarize" => messages[p].showSummarize
    /\ ~isProcessing[type]

\* if (!checkOnlineStatus()) { setError(...); return; }
handleTextProcessOffline(type, p) ==
    /\ Clickable(type, p)
    /\ ~online
    /\ error' = OfflineMessage
    /\ UNCHANGED <<messages, isProcessing, targetLanguage, inputText, summarizer,
                   apiAvailability, downloadStatus>>
    /\ UNCHANGED <<envVars, taskVars, rt, initVars, obsVars>>

\* type === 'translate' && window.ai?.translator: capabilities() is issued
handleTextProcessTranslate(p) ==
    /\ Clickable("translate", p)
    /\ online
    /\ host.translatorApi
    /\ nextTid <= MaxOps
    /\ LET messageId == messages[p].id
           t == Task(nextTid, "translate", "trProbe", messageId,
                     OriginalMessageId(messageId),
                     TextToProcess(messages, messageId),
                     Find(messages, messageId).text, targetLanguage)
       IN /\ tasks' = tasks \cup {t}
          /\ nextTid' = nextTid + 1
    /\ error' = Null
    /\ isProcessing' = SetBusy(isProcessing, "translate")
    /\ UNCHANGED <<messages, targetLanguage, inputText, summarizer,
                   apiAvailability, downloadStatus>>
    /\ UNCHANGED <<envVars, rt, initVars, obsVars>>

\* type === 'summarize' && summarizer: retryOperation starts, its first
\* attempt passes the online check of this same step and issues
\* summarizer.summarize(message.text)
handleTextProcessSummarize(p) ==
    /\ Clickable("summarize", p)
    /\ online
    /\ summarizer # "null"
    /\ nextTid <= MaxOps
    /\ LET messageId == messages[p].id
           t == Task(nextTid, "summarize", "sumCall", messageId,
                     OriginalMessageId(messageId),
                     TextToProcess(messages, messageId),
                     Find(messages, messageId).text, targetLanguage)
       IN /\ tasks' = tasks \cup {t}
          /\ nextTid' = nextTid + 1
    /\ error' = Null
    /\ isProcessing' = SetBusy(isProcessing, "summarize")
    /\ UNCHANGED <<messages, targetLanguage, inputText, summarizer,
                   apiAvailability, downloadStatus>>
    /\ UNCHANGED <<envVars, rt, initVars, obsVars>>

\* neither branch applies: the flag is raised and cleared in the same step
handleTextProcessNothing(type, p) ==
    /\ Clickable(type, p)
    /\ online
    /\ \/ type = "translate" /\ ~host.translatorApi
       \/ type = "summarize" /\ summarizer = "null"
    /\ error' = Null
    /\ isProcessing' = ClearBusy(SetBusy(isProcessing, type), type)
    /\ UNCHANGED <<messages, targetLanguage, inputText, summarizer,
                   apiAvailability, downloadStatus>>
    /\ UNCHANGED <<envVars, taskVars, rt, initVars, obsVars>>

(***************************************************************************)
(* handleTextProcess, translate (page.tsx 553-671).  The two branches      *)
(* (explicit source, 'auto' source) run the same code from create() on.    *)
(***************************************************************************)
NotSupported(target) ==
    <<"Translation to ", target, " is not supported yet. Please try a different language.">>

\* what the host may answer to languagePairAvailable(sourceLanguages[k], target)
PairAnswers ==
    { [k \in 1..Len(sourceLanguages) |-> "no"],
      [k \in 1..Len(sourceLanguages) |-> "readily"],
      [k \in 1..Len(sourceLanguages) |-> IF k < 3 THEN "no" ELSE "after-download"],
      [k \in 1..Len(sourceLanguages) |-> IF k = 4 THEN "readily" ELSE "no"] }

\* a loop without the break: the last supported source wins
LastSupported(pairs) ==
    LET S == {k \in 1..Len(sourceLanguages) : pairs[k] # "no"}
    IN IF S = {} THEN 0 ELSE CHOOSE k \in S : \A j \in S : j <= k

\* for (const sourceLanguage of sourceLanguages) { ... if (availability !== 'no')
\* { supported = true; bestSourceLanguage = sourceLanguage; break; } }:
\* the index of the source chosen, 0 when none is supported
FirstSupported(pairs) ==
    LET S == {k \in 1..Len(sourceLanguages) : pairs[k] # "no"}
    IN IF S = {} THEN 0 ELSE Min(S)

\* window.ai.translator.create({ sourceLanguage, targetLanguage, monitor }) is issued;
\* auto and pairs are the answers languagePairAvailable gave (autoAvailability and
\* the availability of each source tried), which the handler holds while it creates
CreateTranslator(t, auto, pairs, source, available) ==
    /\ tasks' = Replace(t, [t EXCEPT !.pc = "trCreate", !.auto = auto,
                                     !.pairs = pairs, !.src = source,
                                     !.avail = available])
    /\ UNCHANGED <<messages, isProcessing, error, translations>>

\* languagePairAvailable('auto', target) is not 'no': the 'auto' branch
TrProbedAuto(t, auto) ==
    /\ t \in tasks /\ t.pc = "trProbe"
    /\ auto # "no"
    /\ CreateTranslator(t, auto, <<>>, "auto", auto)
    /\ UNCHANGED restVars

\* languagePairAvailable('auto', target) is 'no': the loop over sourceLanguages
TrProbedPairs(t, pairs) ==
    /\ t \in tasks /\ t.pc = "trProbe"
    /\ IF FirstSupported(pairs) # 0
       THEN CreateTranslator(t, "no", pairs, sourceLanguages[FirstSupported(pairs)],
                             pairs[FirstSupported(pairs)])
       ELSE Fail(t, NotSupported(t.target))
    /\ UNCHANGED restVars

\* create() resolved, and ready when the instance has one:
\* translatorInstance.translate(textToProcess) is issued (the availability
\* answers are not read again)
TrCreated(t) ==
    /\ t \in tasks /\ t.pc = "trCreate"
    /\ tasks' = Replace(t, [t EXCEPT !.pc = "trTranslate", !.auto = "none",
                                     !.pairs = <<>>])
    /\ UNCHANGED <<uiVars, envVars, nextTid, rt, initVars, obsVars>>

\* translate() resolved with a text of length len: detectLanguage(processedText)
TrTranslateOk(t, len) ==
    /\ t \in tasks /\ t.pc = "trTranslate"
    /\ Detect(t, [t EXCEPT !.out =
                     Text(t.text.base,
                          Append(t.text.ops, [op |-> "translate", to |-> t.target,
                                              by |-> t.tid]),
                          len, 0)])
    /\ UNCHANGED restVars

\* one of the host calls of the translate branch rejects
TrHostFail(t) ==
    /\ t \in tasks
    /\ t.pc \in {"trProbe", "trCreate", "trTranslate"}
    /\ Fail(t, <<HostError>>)
    /\ UNCHANGED restVars

(***************************************************************************)
(* handleTextProcess, summarize (page.tsx 672-702): retryOperation around  *)
(* { if (!checkOnlineStatus()) throw ...; summarizer.summarize(text) }.    *)
(***************************************************************************)
SummaryFailed(msg) == <<"Failed to generate summary: ", msg>>

\* the attempt failed: t.r is the state after retryOperation's catch
SummarizeFailed(old, t) ==
    IF t.r.pc = "delay"
    THEN /\ tasks' = Replace(old, [t EXCEPT !.pc = "sumDelay"])
         /\ UNCHANGED <<messages, isProcessing, error, translations>>
    ELSE /\ error' = SummaryFailed(t.r.lastError)
         /\ isProcessing' = ClearBusy(isProcessing, "summarize")
         /\ tasks' = tasks \ {old}
         /\ UNCHANGED <<messages, translations>>

\* summarize() resolved with a text of length len holding marks markers
SumCallOk(t, len, marks) ==
    /\ t \in tasks /\ t.pc = "sumCall"
    /\ Detect(t, [t EXCEPT
           !.r = RetryOk(t.r, "summary"),
           !.out = cleanMarkdownFormatting(
                       Text(t.msgText.base,
                            Append(t.msgText.ops, [op |-> "summarize", to |-> "-",
                                                   by |-> t.tid]),
                            len, marks))])
    /\ UNCHANGED restVars

\* summarize() rejected
SumCallFail(t) ==
    /\ t \in tasks /\ t.pc = "sumCall"
    /\ SummarizeFailed(t, [t EXCEPT !.r = RetryFail(t.r, HostError)])
    /\ UNCHANGED restVars

\* the delay elapsed: the next attempt checks the connection first
SumDelayDone(t) ==
    /\ t \in tasks /\ t.pc = "sumDelay"
    /\ LET r == RetryWaited(t.r)
       IN IF r.pc = "attempt" /\ online
          THEN /\ tasks' = Replace(t, [t EXCEPT !.pc = "sumCall", !.r = r])
               /\ UNCHANGED <<messages, isProcessing, error, translations>>
          ELSE SummarizeFailed(t, [t EXCEPT !.r =
                   IF r.pc = "attempt" THEN RetryFail(r, NetworkLost) ELSE r])
    /\ UNCHANGED restVars

(***************************************************************************)
(* Construction: the useState initial values (page.tsx 209-233).           *)
(***************************************************************************)
\* the host: whether checkBrowserCompatibility accepts it, which of
\* window.ai.summarizer / translator / languageDetector exist, and what it
\* holds of each model ('no', 'readily', 'after-download')
Host(sApi, tApi, dApi, sAvail, dAvail) ==
    [browserOk |-> TRUE, summarizerApi |-> sApi, translatorApi |-> tApi,
     detectorApi |-> dApi, summarizerAvail |-> sAvail, translatorAvail |-> "readily",
     detectorAvail |-> dAvail]

Availability(s, t, d) == [summarizer |-> s, translator |-> t, languageDetector |-> d]

NoDownload == [isDownloading |-> FALSE, progress |-> 0, total |-> 0, type |-> "null"]

\* an initialization effect: the await it is suspended at ("done" once it
\* has returned), the availability it read, its retryOperation call, and the
\* bytes the host has reported for the download of its creation
Effect(pc, available, r) ==
    [pc |-> pc, available |-> available, r |-> r, loaded |-> 0]
Begun == Effect("compat", "none", RetryStart(MaxRetries))
Ended == Effect("done", "none", RetryStart(MaxRetries))
\* the effect returned because capabilities() answered 'no'
Unusable == Effect("done", "no", RetryStart(MaxRetries))
\* the effect returned because the user answered no to window.confirm
Declined == Effect("declined", "none", RetryStart(MaxRetries))

Constructed ==
    /\ messages = <<WelcomeMsg>>
    /\ isProcessing = [summarize |-> FALSE, translate |-> FALSE, detect |-> FALSE]
    /\ error = Null
    /\ targetLanguage = "en"
    /\ inputText = EmptyInput
    /\ summarizer = "null"
    /\ apiAvailability = Availability(FALSE, FALSE, FALSE)
    /\ downloadStatus = NoDownload
    /\ now = 1
    /\ tasks = {}
    /\ nextTid = 1
    /\ rt = RtIdle
    /\ creates = {}
    /\ translations = <<>>

(***************************************************************************)
(* The stand-alone retryOperation call.                                    *)
(***************************************************************************)
InitRetry ==
    /\ Constructed
    /\ online = TRUE
    /\ host = Host(TRUE, TRUE, TRUE, "readily", "readily")
    /\ sumInit = Ended /\ trInit = Ended /\ netListeners = FALSE

NextRetry ==
    \/ \E max \in 0..MaxRetriesBound : RtCall(max)
    \/ \E v \in Values : RtAttemptOk(v)
    \/ \E e \in Errors : RtAttemptFail(e)
    \/ RtDelay

SpecRetry == InitRetry /\ [][NextRetry]_vars

(***************************************************************************)
(* The conversation, once both initialization effects have ended.  Each    *)
(* configuration is an outcome of them: everything available; no detector  *)
(* in the host; the summarizer not usable on the device; no translator in  *)
(* the host (the detector is then never initialized).                      *)
(***************************************************************************)
NotUsable == <<"Summarizer API is not usable on this device. Please check Chrome flags and ensure your device meets the requirements.">>
NotAvailable == <<"The AI features are not available.">>

Settled ==
    { [host |-> Host(TRUE, TRUE, TRUE, "readily", "readily"), summarizer |-> "inst",
       apiAvailability |-> Availability(TRUE, TRUE, TRUE), error |-> Null],
      [host |-> Host(TRUE, TRUE, FALSE, "readily", "no"), summarizer |-> "inst",
       apiAvailability |-> Availability(TRUE, TRUE, FALSE), error |-> Null],
      [host |-> Host(TRUE, TRUE, TRUE, "no", "readily"), summarizer |-> "null",
       apiAvailability |-> Availability(FALSE, TRUE, TRUE), error |-> NotUsable],
      [host |-> Host(TRUE, FALSE, TRUE, "readily", "after-download"),
       summarizer |-> "inst",
       apiAvailability |-> Availability(TRUE, FALSE, FALSE), error |-> NotAvailable] }

Init ==
    /\ \E c \in Settled :
          /\ host = c.host
          /\ summarizer = c.summarizer
          /\ apiAvailability = c.apiAvailability
          /\ error = c.error
    /\ messages = <<WelcomeMsg>>
    /\ isProcessing = [summarize |-> FALSE, translate |-> FALSE, detect |-> FALSE]
    /\ targetLanguage = "en"
    /\ inputText = EmptyInput
    /\ downloadStatus = NoDownload
    /\ online = TRUE
    /\ now = 1
    /\ tasks = {}
    /\ nextTid = 1
    /\ rt = RtIdle
    /\ sumInit = Ended /\ trInit = Ended
    /\ netListeners = (summarizer # "null")
    /\ creates = {}
    /\ translations = <<>>

Kinds == {"translate", "summarize"}
\* the text typed in the conversation
LongText == [len |-> SummarizeThreshold + 1, blank |-> FALSE]

\* sending and the two buttons, with the steps of the handlers they start
Conversation ==
    \/ TypeText(LongText)
    \/ handleSendEmpty
    \/ \E n \in 1..MaxClock : handleSend(n)
    \/ \E t \in tasks, det \in {"en", NoLang} : DetectResult(t, det)
    \/ \E p \in 1..Len(messages) : handleTextProcessTranslate(p)
    \/ \E p \in 1..Len(messages) : handleTextProcessSummarize(p)
    \/ \E type \in Kinds, p \in 1..Len(messages) : handleTextProcessNothing(type, p)
    \/ \E t \in tasks, auto \in Avail : TrProbedAuto(t, auto)
    \/ \E t \in tasks, pairs \in PairAnswers : TrProbedPairs(t, pairs)
    \/ \E t \in tasks : TrCreated(t)
    \/ \E t \in tasks : TrTranslateOk(t, SummarizeThreshold + 1)
    \/ \E t \in tasks : TrHostFail(t)
    \/ \E t \in tasks : SumCallOk(t, SummaryLen, 1)
    \/ \E t \in tasks : SumCallFail(t)
    \/ \E t \in tasks : SumDelayDone(t)

\* the conversation while the connection comes and goes
Next ==
    \/ GoOffline
    \/ GoOnline
    \/ \E type \in Kinds, p \in 1..Len(messages) : handleTextProcessOffline(type, p)
    \/ Conversation

Spec == Init /\ [][Next]_vars

\* the answer of the host to the call request tid is suspended at
HostAnswers(tid) ==
    \E t \in tasks :
        /\ t.tid = tid
        /\ \/ \E det \in {"en", NoLang} : DetectResult(t, det)
           \/ \E auto \in Avail : TrProbedAuto(t, auto)
           \/ \E pairs \in PairAnswers : TrProbedPairs(t, pairs)
           \/ TrCreated(t)
           \/ TrTranslateOk(t, SummarizeThreshold + 1)
           \/ TrHostFail(t)
           \/ SumCallOk(t, SummaryLen, 1)
           \/ SumCallFail(t)
           \/ SumDelayDone(t)

\* translate and summarize requests on the messages of the log, while the
\* connection comes and goes
NextLive ==
    \/ GoOffline
    \/ GoOnline
    \/ \E type \in Kinds, p \in 1..Len(messages) : handleTextProcessOffline(type, p)
    \/ \E type \in Kinds, p \in 1..Len(messages) : handleTextProcessNothing(type, p)
    \/ \E p \in 1..Len(messages) : handleTextProcessTranslate(p)
    \/ \E p \in 1..Len(messages) : handleTextProcessSummarize(p)
    \/ \E tid \in 1..MaxOps : HostAnswers(tid)

\* the requests on a host whose every call eventually returns or fails, and
\* whose timers fire
SpecLive ==
    Init /\ [][NextLive]_vars /\ \A tid \in 1..MaxOps : WF_vars(HostAnswers(tid))

(***************************************************************************)
(* Submitting: every text the textarea can hold, typed and sent.           *)
(***************************************************************************)
NextSubmit ==
    \/ GoOffline
    \/ GoOnline
    \/ \E s \in InputTexts : TypeText(s)
    \/ handleSendEmpty
    \/ \E n \in 1..MaxClock : handleSend(n)
    \/ \E t \in tasks, det \in DetCodes \cup {NoLang} : DetectResult(t, det)

SpecSubmit == Init /\ [][NextSubmit]_vars

(***************************************************************************)
(* The conversation with the target language changed between requests,     *)
(* the connection staying up.                                              *)
(***************************************************************************)
NextLanguages ==
    \/ \E l \in Targets : SelectTarget(l)
    \/ Conversation

SpecLanguages == Init /\ [][NextLanguages]_vars

(***************************************************************************)
(* Choosing the source language: translate requests alone, the host        *)
(* answering languagePairAvailable in every way it can for the five        *)
(* sources tried.                                                          *)
(***************************************************************************)
AllPairAnswers == [1..Len(sourceLanguages) -> Avail]

NextSource ==
    \/ \E l \in Targets : SelectTarget(l)
    \/ \E p \in 1..Len(messages) : handleTextProcessTranslate(p)
    \/ \E t \in tasks, auto \in Avail : TrProbedAuto(t, auto)
    \/ \E t \in tasks, pairs \in AllPairAnswers : TrProbedPairs(t, pairs)
    \/ \E t \in tasks : TrCreated(t)
    \/ \E t \in tasks : TrTranslateOk(t, SummarizeThreshold + 1)
    \/ \E t \in tasks : TrHostFail(t)
    \/ \E t \in tasks, det \in {"en", NoLang} : DetectResult(t, det)

SpecSource == Init /\ [][NextSource]_vars

(***************************************************************************)
(* Translator sessions: translate requests on a host that supports the     *)
(* pair ('auto', target) readily for every target, so that every           *)
(* translator is created with source 'auto' and two requests have the same *)
(* pair exactly when they have the same target.                            *)
(***************************************************************************)
NextSession ==
    \/ \E l \in Targets : SelectTarget(l)
    \/ \E p \in 1..Len(messages) : handleTextProcessTranslate(p)
    \/ \E t \in tasks : TrProbedAuto(t, "readily")
    \/ \E t \in tasks : TrCreated(t)
    \/ \E t \in tasks : TrTranslateOk(t, SummarizeThreshold + 1)
    \/ \E t \in tasks : TrHostFail(t)
    \/ \E t \in tasks, det \in {"en", NoLang} : DetectResult(t, det)

SpecSession == Init /\ [][NextSession]_vars

(***************************************************************************)
(* The two initialization effects, run once after construction and         *)
(* concurrently: initializeSummarizer (page.tsx 245-363) and               *)
(* initializeTranslator (page.tsx 366-460).  creates records every         *)
(* creation call issued: the capability, what the host holds of its model  *)
(* and whether window.confirm was answered yes before the call.            *)
(***************************************************************************)
BrowserMessage == <<"browser is not supported">>
SummarizerMissing == <<"The AI features are not available (summarizer).">>
Cancelled == <<"Model download cancelled by user. Some features will be unavailable.">>
SetupLost == <<"Network connection lost during setup. Please check your internet connection and try again.">>
SummarizerFailed(msg) == <<"Failed to initialize summarizer: ", msg>>
SummarizerApiFailed(msg) == <<"Failed to initialize Summarizer API: ", msg>>

Created(cap, available, consent) ==
    [cap |-> cap, available |-> available, consent |-> consent]

\* if (available === 'after-download') { const startDownload = window.confirm(...) }
NeedsConsent(available) == available = "after-download"

\* setDownloadStatus(prev => ({ ...prev, isDownloading: false, type: null }))
DownloadEnded(prev) == [prev EXCEPT !.isDownloading = FALSE, !.type = "null"]

\* the downloadprogress listener: setDownloadStatus({ isDownloading: true, ... })
Downloading(loaded, type) ==
    [isDownloading |-> TRUE, progress |-> loaded, total |-> MaxBytes, type |-> type]

sumOnly == <<messages, isProcessing, targetLanguage, inputText, envVars,
             taskVars, rt, trInit, translations>>
trOnly  == <<messages, isProcessing, targetLanguage, inputText, summarizer,
             envVars, taskVars, rt, sumInit, netListeners, translations>>

\* mutant: the connection is checked before the browser
GateNetworkFirst(compatible, onLine) ==
    IF ~onLine THEN OfflineMessage
    ELSE IF ~compatible THEN BrowserMessage
    ELSE Null

\* if (!compatible) { setError(message); return; }
\* if (!checkOnlineStatus()) { setError('You are currently offline...'); return; }
\* the reason the effect stops for, Null when it goes on
Gate(compatible, onLine) ==
    IF ~compatible THEN BrowserMessage
    ELSE IF ~onLine THEN OfflineMessage
    ELSE Null

\* checkBrowserCompatibility() resolved: the three gates (page.tsx 247-267)
SumCompat ==
    /\ sumInit.pc = "compat"
    /\ IF Gate(host.browserOk, online) # Null
       THEN error' = Gate(host.browserOk, online) /\ sumInit' = Ended
       ELSE IF ~host.summarizerApi
       THEN error' = SummarizerMissing /\ sumInit' = Ended
       ELSE error' = error /\ sumInit' = [sumInit EXCEPT !.pc = "probe"]
    /\ UNCHANGED <<summarizer, apiAvailability, downloadStatus, netListeners, creates>>
    /\ UNCHANGED sumOnly

\* capabilities() resolved; window.confirm answers consent when it is asked
\* (page.tsx 272-296): 'no' and a refusal end the effect, otherwise create()
\* is issued
SumProbed(consent) ==
    /\ sumInit.pc = "probe"
    /\ consent => NeedsConsent(host.summarizerAvail)
    /\ IF host.summarizerAvail = "no"
       THEN error' = NotUsable /\ sumInit' = Unusable /\ creates' = creates
       ELSE IF NeedsConsent(host.summarizerAvail) /\ ~consent
       THEN error' = Cancelled /\ sumInit' = Declined /\ creates' = creates
       ELSE /\ error' = error
            /\ sumInit' = [sumInit EXCEPT !.pc = "create",
                                          !.available = host.summarizerAvail]
            /\ creates' = creates \cup
                   {Created("summarizer", host.summarizerAvail, consent)}
    /\ UNCHANGED <<summarizer, apiAvailability, downloadStatus, netListeners>>
    /\ UNCHANGED sumOnly

\* capabilities() rejected: the outer catch (page.tsx 353-359)
SumProbeFail ==
    /\ sumInit.pc = "probe"
    /\ error' = SummarizerApiFailed(HostError)
    /\ sumInit' = Ended
    /\ UNCHANGED <<summarizer, apiAvailability, downloadStatus, netListeners, creates>>
    /\ UNCHANGED sumOnly

\* the host calls monitor(m): the window listeners are registered
SumMonitor ==
    /\ sumInit.pc = "create"
    /\ ~netListeners
    /\ netListeners' = TRUE
    /\ UNCHANGED <<error, summarizer, apiAvailability, downloadStatus, sumInit, creates>>
    /\ UNCHANGED sumOnly

\* a downloadprogress event of the summarizer's model: the host reports
\* loaded bytes, never fewer than it reported before for this download
SumProgress(loaded) ==
    /\ sumInit.pc \in {"create", "ready", "delay"}
    /\ sumInit.available = "after-download"
    /\ netListeners
    /\ loaded >= sumInit.loaded
    /\ sumInit' = [sumInit EXCEPT !.loaded = loaded]
    /\ downloadStatus' = Downloading(loaded, "summarizer")
    /\ UNCHANGED <<error, summarizer, apiAvailability, netListeners, creates>>
    /\ UNCHANGED sumOnly

\* createSummarizerWithRetry() resolved (page.tsx 337-341)
SumInitSucceeded ==
    /\ downloadStatus' = DownloadEnded(downloadStatus)
    /\ summarizer' = "inst"
    /\ apiAvailability' = [apiAvailability EXCEPT !.summarizer = TRUE]
    /\ sumInit' = Ended
    /\ UNCHANGED error

\* mutant: the rejection is swallowed
SumInitFailedSilently(msg) ==
    /\ sumInit' = Ended
    /\ UNCHANGED <<error, summarizer, apiAvailability, downloadStatus>>

\* createSummarizerWithRetry() rejected: the inner catch (page.tsx 342-352)
SumInitFailed(msg) ==
    /\ error' = IF ~online THEN SetupLost ELSE SummarizerFailed(msg)
    /\ sumInit' = Ended
    /\ UNCHANGED <<summarizer, apiAvailability, downloadStatus>>

\* mutant: the retry wraps the creation, each attempt calling create() again
SumAttemptRecreate(r) ==
    IF online
    THEN /\ sumInit' = [sumInit EXCEPT !.pc = "create", !.r = r]
         /\ UNCHANGED <<error, summarizer, apiAvailability, downloadStatus>>
    ELSE IF RetryFail(r, NetworkLost).pc = "delay"
    THEN /\ sumInit' = [sumInit EXCEPT !.pc = "delay",
                                       !.r = RetryFail(r, NetworkLost)]
         /\ UNCHANGED <<error, summarizer, apiAvailability, downloadStatus>>
    ELSE /\ error' = SetupLost
         /\ sumInit' = Ended
         /\ UNCHANGED <<summarizer, apiAvailability, downloadStatus>>

\* an attempt of retryOperation (page.tsx 321-331): the connection is
\* checked, then summarizerInstance.ready is awaited
SumAttempt(r) ==
    IF online
    THEN /\ sumInit' = [sumInit EXCEPT !.pc = "ready", !.r = r]
         /\ UNCHANGED <<error, summarizer, apiAvailability, downloadStatus>>
    ELSE IF RetryFail(r, NetworkLost).pc = "delay"
    THEN /\ sumInit' = [sumInit EXCEPT !.pc = "delay",
                                       !.r = RetryFail(r, NetworkLost)]
         /\ UNCHANGED <<error, summarizer, apiAvailability, downloadStatus>>
    ELSE SumInitFailed(NetworkLost)

\* create() resolved
SumCreated ==
    /\ sumInit.pc = "create"
    /\ IF sumInit.available = "after-download"
       THEN SumAttempt(RetryStart(MaxRetries))
       ELSE SumInitSucceeded
    /\ UNCHANGED <<netListeners, creates>>
    /\ UNCHANGED sumOnly

\* create() rejected
SumCreateFail ==
    /\ sumInit.pc = "create"
    /\ SumInitFailed(HostError)
    /\ UNCHANGED <<netListeners, creates>>
    /\ UNCHANGED sumOnly

\* summarizerInstance.ready resolved
SumReadyOk ==
    /\ sumInit.pc = "ready"
    /\ SumInitSucceeded
    /\ UNCHANGED <<netListeners, creates>>
    /\ UNCHANGED sumOnly

\* summarizerInstance.ready rejected
SumReadyFail ==
    /\ sumInit.pc = "ready"
    /\ IF RetryFail(sumInit.r, HostError).pc = "delay"
       THEN /\ sumInit' = [sumInit EXCEPT !.pc = "delay",
                                          !.r = RetryFail(sumInit.r, HostError)]
            /\ UNCHANGED <<error, summarizer, apiAvailability, downloadStatus>>
       ELSE SumInitFailed(HostError)
    /\ UNCHANGED <<netListeners, creates>>
    /\ UNCHANGED sumOnly

\* delay(5000) elapsed: the next attempt
SumInitDelayDone ==
    /\ sumInit.pc = "delay"
    /\ SumAttempt(RetryWaited(sumInit.r))
    /\ UNCHANGED <<netListeners, creates>>
    /\ UNCHANGED sumOnly

\* checkBrowserCompatibility() resolved: the gates, then translator.create()
\* for 'en' -> 'es' is issued (page.tsx 368-408)
TrCompat ==
    /\ trInit.pc = "compat"
    /\ IF Gate(host.browserOk, online) # Null
       THEN /\ error' = Gate(host.browserOk, online)
            /\ trInit' = Ended /\ creates' = creates
       ELSE IF ~host.translatorApi
       THEN error' = NotAvailable /\ trInit' = Ended /\ creates' = creates
       ELSE /\ error' = error
            /\ trInit' = [trInit EXCEPT !.pc = "create",
                                        !.available = host.translatorAvail]
            /\ creates' = creates \cup
                   {Created("translator", host.translatorAvail, FALSE)}
    /\ UNCHANGED <<apiAvailability, downloadStatus>>
    /\ UNCHANGED trOnly

\* a downloadprogress event of the translator's model: the host reports
\* loaded bytes, never fewer than it reported before for this download
TrProgress(loaded) ==
    /\ trInit.pc = "create"
    /\ trInit.available = "after-download"
    /\ loaded >= trInit.loaded
    /\ trInit' = [trInit EXCEPT !.loaded = loaded]
    /\ downloadStatus' = Downloading(loaded, "translator")
    /\ UNCHANGED <<error, apiAvailability, creates>>
    /\ UNCHANGED trOnly

\* create() and ready resolved (page.tsx 411-418): the detector's
\* capabilities() is issued when the host has a detector
TrInitCreated ==
    /\ trInit.pc = "create"
    /\ apiAvailability' = [apiAvailability EXCEPT !.translator = TRUE]
    /\ IF host.detectorApi
       THEN /\ trInit' = [trInit EXCEPT !.pc = "detProbe", !.loaded = 0]
            /\ downloadStatus' = downloadStatus
       ELSE /\ trInit' = Ended
            /\ downloadStatus' = DownloadEnded(downloadStatus)
    /\ UNCHANGED <<error, creates>>
    /\ UNCHANGED trOnly

\* create() or ready rejected: the catch (page.tsx 450-456)
TrInitCreateFail ==
    /\ trInit.pc = "create"
    /\ error' = <<HostError>>
    /\ trInit' = Ended
    /\ UNCHANGED <<apiAvailability, downloadStatus, creates>>
    /\ UNCHANGED trOnly

\* languageDetector.capabilities() resolved (page.tsx 420-433): 'no' returns
\* from the effect, otherwise create() is issued
DetProbed ==
    /\ trInit.pc = "detProbe"
    /\ IF host.detectorAvail = "no"
       THEN trInit' = Unusable /\ creates' = creates
       ELSE /\ trInit' = [trInit EXCEPT !.pc = "detCreate",
                                        !.available = host.detectorAvail]
            /\ creates' = creates \cup
                   {Created("detector", host.detectorAvail, FALSE)}
    /\ UNCHANGED <<error, apiAvailability, downloadStatus>>
    /\ UNCHANGED trOnly

\* create(), ready and detect('Hello, world!') answered (page.tsx 426-449):
\* "detected" is a non-empty result, "empty" an empty one, "failed" a
\* rejection of capabilities() or of one of the three, caught silently
DetInitResult(outcome) ==
    /\ \/ trInit.pc = "detCreate"
       \/ trInit.pc = "detProbe" /\ outcome = "failed"
    /\ apiAvailability' =
          IF outcome = "detected"
          THEN [apiAvailability EXCEPT !.languageDetector = TRUE]
          ELSE apiAvailability
    /\ downloadStatus' = DownloadEnded(downloadStatus)
    /\ trInit' = Ended
    /\ UNCHANGED <<error, creates>>
    /\ UNCHANGED trOnly

Hosts ==
    [browserOk : BOOLEAN, summarizerApi : BOOLEAN, translatorApi : BOOLEAN,
     detectorApi : BOOLEAN, summarizerAvail : Avail,
     translatorAvail : Avail \ {"no"}, detectorAvail : Avail]

InitEffects ==
    /\ Constructed
    /\ online \in BOOLEAN
    /\ host \in Hosts
    /\ sumInit = Begun /\ trInit = Begun /\ netListeners = FALSE

NextEffects ==
    \/ GoOffline
    \/ GoOnline
    \/ SumCompat
    \/ \E consent \in BOOLEAN : SumProbed(consent)
    \/ SumProbeFail
    \/ SumMonitor
    \/ \E loaded \in 1..MaxBytes : SumProgress(loaded)
    \/ SumCreated
    \/ SumCreateFail
    \/ SumReadyOk
    \/ SumReadyFail
    \/ SumInitDelayDone
    \/ TrCompat
    \/ \E loaded \in 1..MaxBytes : TrProgress(loaded)
    \/ TrInitCreated
    \/ TrInitCreateFail
    \/ DetProbed
    \/ \E outcome \in {"detected", "empty", "failed"} : DetInitResult(outcome)

SpecEffects == InitEffects /\ [][NextEffects]_vars

(***************************************************************************)
(* Properties.                                                             *)
(***************************************************************************)
Idx == 1..Len(messages)
IsOutputOfSubmit(m) == m.id.sfx = <<"output">>
Failures(h) == {i \in 1..Len(h) : ~h[i].ok}

\* C1: the output message a submit appends for its text T shows the Summarize
\* control exactly when the detected code is 'en' and T is longer than 150
\* characters; 150 characters exactly, or another language, gives false.
C1_ShowSummarizeIff ==
    \A p \in Idx :
        IsOutputOfSubmit(messages[p]) =>
            (messages[p].showSummarize <=>
                (messages[p].detectedLanguage = "en"
                 /\ messages[p].text.len > SummarizeThreshold))

\* C1 witness: the log holds an 'en' output of 151 characters with the control,
\* an 'en' output of exactly 150 characters and an 'es' output without it
C1_Witness ==
    /\ \E p \in Idx : /\ IsOutputOfSubmit(messages[p])
                      /\ messages[p].detectedLanguage = "en"
                      /\ messages[p].text.len = SummarizeThreshold + 1
                      /\ messages[p].showSummarize
    /\ \E p \in Idx : /\ IsOutputOfSubmit(messages[p])
                      /\ messages[p].detectedLanguage = "en"
                      /\ messages[p].text.len = SummarizeThreshold
                      /\ ~messages[p].showSummarize
    /\ \E p \in Idx : /\ IsOutputOfSubmit(messages[p])
                      /\ messages[p].detectedLanguage = "es"
                      /\ ~messages[p].showSummarize

\* C2: the log never holds two messages with the same '-translated' id: a
\* translate whose source already has a translation replaces it.
C2_OneTranslatedPerSource ==
    \A p, q \in Idx :
        (EndsWithTranslated(messages[p].id) /\ messages[p].id = messages[q].id)
            => p = q

\* C2 witness: two translates of one source, to different languages, have
\* completed and the log holds one message with their id
C2_Witness ==
    \E i, j \in 1..Len(translations) :
        /\ i < j
        /\ translations[i].id = translations[j].id
        /\ translations[i].text.ops # <<>> /\ translations[j].text.ops # <<>>
        /\ translations[i].text.ops[Len(translations[i].text.ops)].to
              # translations[j].text.ops[Len(translations[j].text.ops)].to
        /\ Cardinality(Positions(messages, translations[j].id)) = 1

\* C3: a translate started on a message with id '<M>-translated' passes the
\* text of message M, not the text of the message clicked, to the translator,
\* and the message it adds stores that text as originalText.
C3_TranslatesSourceText ==
    /\ \A t \in tasks :
          (t.kind = "translate" /\ EndsWithTranslated(t.msgId)) =>
              /\ t.text = Find(messages, OriginalMessageId(t.msgId)).text
              /\ t.text # t.msgText
    /\ \A p \in Idx :
          EndsWithTranslated(messages[p].id) =>
              messages[p].originalText
                  = Find(messages, OriginalMessageId(messages[p].id)).text

\* C3 witness: a translate started on a translated message, after the target
\* language was changed, has completed and its message is in the log
C3_Witness ==
    \E i \in 1..Len(translations), p \in Idx :
        /\ EndsWithTranslated(translations[i].from)
        /\ messages[p].id = translations[i].id
        /\ messages[p].text = translations[i].text
        /\ \E j \in 1..(i - 1) :
              /\ translations[j].id = translations[i].id
              /\ translations[j].text.ops[1].to # translations[i].text.ops[1].to

\* C4: when the operation fails k times (k < maxRetries) and then succeeds,
\* retryOperation returns that value, the operation was called k + 1 times,
\* k waits occurred, and it is not called after the success.
C4_RetryThenSuccess ==
    LET h == rt.hist
    IN /\ \A i \in 1..Len(h) : h[i].ok => i = Len(h)
       /\ (Len(h) > 0 /\ h[Len(h)].ok) =>
             /\ rt.r.pc = "returned"
             /\ rt.r.result = h[Len(h)].x
             /\ Cardinality(Failures(h)) = Len(h) - 1
             /\ Cardinality(Failures(h)) < rt.r.max
             /\ rt.r.waits = Cardinality(Failures(h))
       /\ rt.r.pc = "returned" => (Len(h) > 0 /\ h[Len(h)].ok)

\* C4 witness: maxRetries = 3, two failures then a success: returned after
\* three calls and two waits
C4_Witness ==
    /\ rt.on /\ rt.r.max = 3
    /\ rt.r.pc = "returned"
    /\ Len(rt.hist) = 3
    /\ ~rt.hist[1].ok /\ ~rt.hist[2].ok /\ rt.hist[3].ok
    /\ rt.r.waits = 2

\* C5: with maxRetries >= 1, when every attempt fails the operation was called
\* maxRetries times, the error thrown is that of the last attempt,
\* maxRetries - 1 waits occurred and none follows the last failure.
C5_RetryExhausted ==
    LET h == rt.hist
    IN (rt.on /\ rt.r.max >= 1) =>
          /\ Len(h) <= rt.r.max
          /\ (Len(h) = rt.r.max /\ Failures(h) = 1..Len(h)) =>
                /\ rt.r.pc = "thrown"
                /\ rt.r.lastError = h[Len(h)].x
                /\ rt.r.waits = rt.r.max - 1
          /\ rt.r.pc = "thrown" =>
                (Len(h) = rt.r.max /\ Failures(h) = 1..Len(h))
          /\ rt.r.waits <= rt.r.max - 1

\* C5 witness: maxRetries = 3, three failures of which the last differs from
\* the first: thrown with the last error after two waits
C5_Witness ==
    /\ rt.on /\ rt.r.max = 3
    /\ rt.r.pc = "thrown"
    /\ Len(rt.hist) = 3
    /\ rt.hist[1].x # rt.hist[3].x
    /\ rt.r.lastError = rt.hist[3].x
    /\ rt.r.waits = 2

\* C6: when the host reports offline at the moment a capability operation is
\* started (a submit, a translate, a summarize), the operation ends at once
\* with the connectivity error: no handler is left waiting for a host call.
C6_OfflineStartsNothing ==
    [][~online => \A t \in tasks' : t \in tasks \/ t.tid < nextTid]_vars

\* C7: after two completed translates of one source, the message with the
\* '-translated' id carries the text of the one that completed last.
C7_LastTranslationShown ==
    \A i \in 1..Len(translations) :
        (\A j \in (i + 1)..Len(translations) :
             translations[j].id # translations[i].id)
            => \A p \in Idx :
                   messages[p].id = translations[i].id
                       => messages[p].text = translations[i].text

\* C7 witness: two translates of one source have completed with different
\* texts and the log shows the second
C7_Witness ==
    \E i, j \in 1..Len(translations) :
        /\ i < j
        /\ translations[i].id = translations[j].id
        /\ translations[i].text # translations[j].text
        /\ \A k \in (j + 1)..Len(translations) :
               translations[k].id # translations[j].id
        /\ \E p \in Idx : /\ messages[p].id = translations[j].id
                          /\ messages[p].text = translations[j].text

IsSummarized(id) == Len(id.sfx) > 0 /\ id.sfx[Len(id.sfx)] = "summarized"

\* C8: the log never holds two messages with the same '-summarized' id: a
\* second summarize of a source replaces the message of the first.
C8_OneSummarizedPerSource ==
    \A p, q \in Idx :
        (IsSummarized(messages[p].id) /\ messages[p].id = messages[q].id)
            => p = q

\* C9: two actions of the same kind are never in flight together: the busy
\* flag of a kind is set exactly while an action of that kind is in flight,
\* and no action of a kind starts while its flag is set; a summarize and a
\* translate may be in flight together.
C9_OnePerKind ==
    \A kind \in Kinds :
        /\ Cardinality(InFlight(kind)) <= 1
        /\ isProcessing[kind] <=> InFlight(kind) # {}

\* C9 witness: a translate and a summarize are in flight together
C9_Witness ==
    /\ InFlight("translate") # {} /\ InFlight("summarize") # {}
    /\ isProcessing["translate"] /\ isProcessing["summarize"]

\* C10: for the summarizer, the translator and the detector alike, no
\* creation call is issued for a capability the host holds as
\* 'after-download' unless the user consented before the call.
C10_NoCreateWithoutConsent ==
    \A c \in creates : c.available = "after-download" => c.consent

\* C11: each initialization effect checks the browser first and the
\* connection second and stops at the first failure: it sets that reason as
\* the error, ends, and issues no probe and no creation call; when both fail
\* the reason is the browser's.
C11_GatesInOrder ==
    [][/\ (sumInit.pc = "compat" /\ sumInit'.pc # "compat") =>
             /\ ~host.browserOk =>
                   (error' = BrowserMessage /\ sumInit' = Ended /\ creates' = creates)
             /\ (host.browserOk /\ ~online) =>
                   (error' = OfflineMessage /\ sumInit' = Ended /\ creates' = creates)
       /\ (trInit.pc = "compat" /\ trInit'.pc # "compat") =>
             /\ ~host.browserOk =>
                   (error' = BrowserMessage /\ trInit' = Ended /\ creates' = creates)
             /\ (host.browserOk /\ ~online) =>
                   (error' = OfflineMessage /\ trInit' = Ended /\ creates' = creates)
      ]_vars

\* C11 witness: browser incompatible and host offline, both effects have
\* ended with the browser's reason and nothing was created
C11_Witness ==
    /\ ~host.browserOk /\ ~online
    /\ sumInit = Ended /\ trInit = Ended
    /\ error = BrowserMessage
    /\ creates = {}

C13_OutputAlwaysAppended ==
    \A p \in Idx :
        (messages[p].type = "input"
            /\ \A t \in tasks : ~(t.kind = "send" /\ t.msgId = messages[p].id))
        => \E q \in Idx : messages[q].id = Derived(messages[p].id, "output")

\* the action t ends in this step
EndsNow(t) == t \in tasks /\ \A u \in tasks' : u.tid # t.tid
\* the text t produced is in the log after this step
ResultAppended(t) ==
    \E p \in 1..Len(messages') :
        /\ messages'[p].text.ops # <<>>
        /\ messages'[p].text.ops[Len(messages'[p].text.ops)].by = t.tid
UserFacing(t) ==
    {<<HostError>>, NotSupported(t.target),
     SummaryFailed(HostError), SummaryFailed(NetworkLost)}

\* C14: when a translate or summarize action ends by a failure (of the
\* invocation, of the translator creation or of the pair probes), the step
\* leaves the log as it was, sets the error to a user-facing message, clears
\* only that action's busy flag and leaves every other action in flight.
C14_FailureLeavesLog ==
    [][\A t \in tasks :
          (t.kind \in Kinds /\ EndsNow(t) /\ ~ResultAppended(t)) =>
              /\ messages' = messages
              /\ error' \in UserFacing(t)
              /\ tasks' = tasks \ {t}
              /\ isProcessing' = ClearBusy(isProcessing, t.kind)
      ]_vars

\* C14 witness: a translate has failed with the host's message while a
\* summarize started before it is still in flight, its flag set
C14_Witness ==
    /\ error = <<HostError>>
    /\ InFlight("translate") = {} /\ ~isProcessing["translate"]
    /\ InFlight("summarize") # {} /\ isProcessing["summarize"]

(***************************************************************************)
(* Source-language selection of a translate request.                       *)
(***************************************************************************)
\* the source a translator may be created with, given the answers of
\* languagePairAvailable the request holds
SourceChosen(t) ==
    IF t.auto # "no"
    THEN t.src = "auto" /\ t.avail = t.auto
    ELSE \E k \in 1..Len(sourceLanguages) :
            /\ t.src = sourceLanguages[k]
            /\ t.pairs[k] # "no" /\ t.avail = t.pairs[k]
            /\ \A j \in 1..(k - 1) : t.pairs[j] = "no"

\* C15: a translator is created with source 'auto' when the pair (auto, t) is
\* not 'no', and otherwise with the first of en, es, fr, de, it whose pair with
\* t is not 'no'; a request that leaves the probes without a creation ends with
\* an error (the one naming t when no source qualifies) and the log untouched,
\* and translate is only ever called after a creation.
C15_SourceSelection ==
    /\ [](\A t \in tasks : t.pc = "trCreate" => SourceChosen(t))
    /\ [][\A t \in tasks : t.pc = "trProbe" =>
            \/ \E u \in tasks' : u.tid = t.tid /\ u.pc \in {"trProbe", "trCreate"}
            \/ /\ EndsNow(t)
               /\ error' \in {NotSupported(t.target), <<HostError>>}
               /\ messages' = messages]_vars
    /\ [][\A u \in tasks' : u.pc = "trTranslate" =>
            \E t \in tasks : t.tid = u.tid /\ t.pc \in {"trCreate", "trTranslate"}]_vars

\* a creation with source 'fr' after 'auto', 'en' and 'es' were answered 'no'
\* while a later source of the list is supported too
C15_Witness ==
    \E t \in tasks :
        /\ t.pc = "trCreate" /\ t.auto = "no" /\ t.src = "fr"
        /\ t.pairs[1] = "no" /\ t.pairs[2] = "no" /\ t.pairs[5] # "no"

\* C16: every message of the log whose id ends in '-summarized' has
\* showSummarize false, whatever its detected language and its length.
C16_SummaryNotResummarizable ==
    \A p \in Idx :
        IsSummarized(messages[p].id) => ~messages[p].showSummarize

\* a summary in the log that is in English and longer than the threshold, so
\* that the rule of the other output messages would offer it for summarizing
C16_Witness ==
    \E p \in Idx :
        /\ IsSummarized(messages[p].id)
        /\ ShowSummarize(messages[p].detectedLanguage, messages[p].text.len)

\* C17: the messages of distinct submits have distinct ids, a later submit
\* getting an id ordered after every earlier one, also when two submits read
\* the same value of Date.now().
C17_SubmitIdsOrdered ==
    \A p, q \in Idx :
        (p < q /\ messages[p].type = "input" /\ messages[q].type = "input")
            => messages[p].id.base < messages[q].id.base

\* C18: declining the download of an 'after-download' summarizer is not an
\* error: the step of the refusal issues no creation, surfaces no error and
\* leaves the initialization of the translator and the detector as it was,
\* and from then on the summarizer stays null, its availability flag false
\* and no summarizer creation is issued.
C18_DeclineIsNotAnError ==
    /\ [][(sumInit # Declined /\ sumInit' = Declined) =>
            /\ error' = error
            /\ creates' = creates
            /\ trInit' = trInit]_vars
    /\ [](sumInit = Declined =>
            /\ summarizer = "null"
            /\ ~apiAvailability.summarizer
            /\ \A c \in creates : c.cap # "summarizer")

\* the parts of C18 other than the error: what the refusal leaves untouched
C18_DeclineCreatesNothing ==
    /\ [][(sumInit # Declined /\ sumInit' = Declined) =>
            /\ error' = Cancelled
            /\ creates' = creates
            /\ trInit' = trInit]_vars
    /\ [](sumInit = Declined =>
            /\ summarizer = "null"
            /\ ~apiAvailability.summarizer
            /\ \A c \in creates : c.cap # "summarizer")

\* C19: when the availability probe of a capability answers 'no', the step
\* surfaces an error and issues no creation, and no creation of that
\* capability is issued afterwards; the summarizer and the detector are the
\* two capabilities probed at initialization.
C19_ProbeNoSurfaced ==
    /\ [][(sumInit # Unusable /\ sumInit' = Unusable) =>
            error' = NotUsable /\ creates' = creates]_vars
    /\ [][(trInit # Unusable /\ trInit' = Unusable) =>
            error' # Null /\ error' # error /\ creates' = creates]_vars
    /\ [](sumInit = Unusable => \A c \in creates : c.cap # "summarizer")
    /\ [](trInit = Unusable => \A c \in creates : c.cap # "detector")

\* the summarizer's part of C19 alone
C19_SummarizerNoSurfaced ==
    /\ [][(sumInit # Unusable /\ sumInit' = Unusable) =>
            error' = NotUsable /\ creates' = creates]_vars
    /\ [](sumInit = Unusable => \A c \in creates : c.cap # "summarizer")

\* C20: inside retryOperation, an attempt made while offline fails with the
\* connectivity error and no delay follows it: neither a summarize request
\* nor the readiness wait of the summarizer is ever waiting out a delay after
\* an attempt that failed with 'Network connection lost'.
C20_OfflineAttemptNoWait ==
    /\ \A t \in tasks : t.pc = "sumDelay" => t.r.lastError # NetworkLost
    /\ sumInit.pc = "delay" => sumInit.r.lastError # NetworkLost

(***************************************************************************)
(* Translator sessions across requests.                                    *)
(***************************************************************************)
\* the target of the translation completed last
LastTarget ==
    LET ops == translations[Len(translations)].text.ops
    IN ops[Len(ops)].to

\* C21: a translate request whose (source, target) pair is the pair of the
\* translator created by the previous request issues no creation call: with
\* every translator created from 'auto', no creation is in progress for the
\* target of the translation completed last.
C21_SessionReused ==
    \A t \in tasks :
        (t.pc = "trCreate" /\ translations # <<>>)
            => ~(t.src = "auto" /\ t.target = LastTarget)

(***************************************************************************)
(* The summarizer instance.                                                *)
(***************************************************************************)
\* C22: ai.summarizer.create is called at most once: the effect suspends at
\* the creation only when it leaves the probe, it never returns to the probe
\* or to the creation once past them (the retries of the readiness wait stay
\* on the instance created), and the calls issued never number more than one.
C22_SummarizerCreatedOnce ==
    /\ [][(sumInit'.pc = "create" /\ sumInit.pc # "create")
            => sumInit.pc = "probe"]_vars
    /\ [][sumInit.pc \notin {"compat", "probe"}
            => sumInit'.pc \notin {"compat", "probe"}]_vars
    /\ [](Cardinality({c \in creates : c.cap = "summarizer"}) <= 1)

\* the readiness wait at its third attempt, on the one instance created
C22_Witness ==
    /\ sumInit.pc = "ready" /\ sumInit.r.i = MaxRetries - 1
    /\ Cardinality({c \in creates : c.cap = "summarizer"}) = 1

(***************************************************************************)
(* Isolation of the initializations.                                       *)
(***************************************************************************)
\* C23: the initialization of a capability does not depend on its siblings:
\* whatever the outcome of the translator's creation, the detector of a host
\* that has one is probed next, and no step of the summarizer's
\* initialization touches the translator's initialization or its flag.
C23_InitIsolated ==
    /\ [][(trInit.pc = "create" /\ trInit' # trInit /\ host.detectorApi)
            => trInit'.pc = "detProbe"]_vars
    /\ [][sumInit' # sumInit =>
            /\ trInit' = trInit
            /\ apiAvailability'.translator = apiAvailability.translator
            /\ apiAvailability'.languageDetector = apiAvailability.languageDetector]_vars

\* the summarizer's part of C23 alone
C23_SummarizerIsolated ==
    [][sumInit' # sumInit =>
            /\ trInit' = trInit
            /\ apiAvailability'.translator = apiAvailability.translator
            /\ apiAvailability'.languageDetector = apiAvailability.languageDetector]_vars

(***************************************************************************)
(* The text a summarize works on.                                          *)
(***************************************************************************)
\* the id '<M>' of a derived id '<M>-summarized'
SummarizedSource(id) == Id(id.base, SubSeq(id.sfx, 1, Len(id.sfx) - 1))

\* C24: the summary stored under the id '<M>-summarized' is a summary of the
\* text of message M, also when the summarize was triggered on a message
\* derived from M (its translation): never of the text of the derived message.
C24_SummarizesSourceText ==
    \A p \in Idx :
        (IsSummarized(messages[p].id)
           /\ Positions(messages, SummarizedSource(messages[p].id)) # {})
        => LET source == Find(messages, SummarizedSource(messages[p].id)).text
               summary == messages[p].text
           IN /\ summary.base = source.base
              /\ SubSeq(summary.ops, 1, Len(summary.ops) - 1) = source.ops

(***************************************************************************)
(* What a step may do to the log.                                          *)
(***************************************************************************)
\* the positions of the log that a step adding newMessage keeps: all of them,
\* but for those holding the id of a translated message added anew
Kept(newMessage) ==
    {i \in Idx : ~(EndsWithTranslated(newMessage.id)
                     /\ messages[i].id = newMessage.id)}

\* C25: a step that changes the log adds one message as its last element and
\* keeps every other message, with its content and in the same relative
\* order, except the message holding the same '-translated' id as the one
\* added; a submit, a summarize or a failed action removes and reorders
\* nothing.
C25_OnlyReplaceRemoves ==
    [][messages' # messages =>
         LET newMessage == messages'[Len(messages')]
             front == SubSeq(messages', 1, Len(messages') - 1)
         IN /\ Len(messages') >= 1
            /\ Len(front) = Cardinality(Kept(newMessage))
            /\ \A i \in Kept(newMessage) :
                  front[Cardinality({j \in Kept(newMessage) : j <= i})]
                      = messages[i]]_vars

\* a second translation of a message is the last element of the log, after a
\* message that was added later than the first translation, which it replaced
C25_Witness ==
    \E i, j \in 1..Len(translations) :
        /\ i < j /\ translations[i].id = translations[j].id
        /\ Len(messages) >= 3
        /\ messages[Len(messages)].id = translations[j].id
        /\ messages[Len(messages)].text = translations[j].text
        /\ Cardinality(Positions(messages, translations[j].id)) = 1
        /\ \E p \in 2..(Len(messages) - 1) :
              /\ messages[p].text.ops # <<>>
              /\ messages[p].text.ops[Len(messages[p].text.ops)].by
                    > translations[i].text.ops[Len(translations[i].text.ops)].by

(***************************************************************************)
(* A summarize and a translate completing in either order.                 *)
(***************************************************************************)
\* the request that produced message m (0 for a text no request produced)
ProducedBy(m) ==
    IF m.text.ops = <<>> THEN 0 ELSE m.text.ops[Len(m.text.ops)].by
\* the last operation of the derivation of m's text
ProducedAs(m) ==
    IF m.text.ops = <<>> THEN "none" ELSE m.text.ops[Len(m.text.ops)].op

\* C26: each completion of a translate or a summarize puts its result at the
\* tail of the log, once, under the derived id of its kind, and keeps every
\* message that an operation of the other kind produced: the results stand in
\* the order of completion and neither completion overwrites or drops the
\* other's message, whichever completes first.
C26_CompletionOrder ==
    [][\A t \in tasks :
         (t.kind \in Kinds /\ EndsNow(t) /\ messages' # messages) =>
            /\ ProducedBy(messages'[Len(messages')]) = t.tid
            /\ messages'[Len(messages')].id
                  = Derived(t.origId, IF t.kind = "translate"
                                      THEN "translated" ELSE "summarized")
            /\ Cardinality({q \in 1..Len(messages') :
                               ProducedBy(messages'[q]) = t.tid}) = 1
            /\ \A p \in Idx :
                  ProducedAs(messages[p]) # t.kind =>
                     \E q \in 1..(Len(messages') - 1) :
                        messages'[q] = messages[p]]_vars

\* a summary and a translation of the same source are both in the log, the
\* result of the request started later standing before the result of the
\* request started first: the two were in flight together and completed in
\* the reverse of the order in which they started
C26_Witness ==
    \E p, q \in Idx :
        /\ p < q
        /\ ProducedBy(messages[p]) > ProducedBy(messages[q])
        /\ ProducedBy(messages[q]) > 0
        /\ ProducedAs(messages[p]) = "summarize"
        /\ ProducedAs(messages[q]) = "translate"
        /\ SummarizedSource(messages[p].id) = SummarizedSource(messages[q].id)

(***************************************************************************)
(* What the retry policy wraps.                                            *)
(***************************************************************************)
\* C27: a translate request calls translate at most once, reaching the call
\* only from its creation and leaving it for the result or for the error,
\* with no retry state and no wait; a summarize request makes at most three
\* attempts, one wait before each attempt but the first and none after the
\* last.
C27_RetryWrapsSummarizeOnly ==
    /\ [](\A t \in tasks :
            /\ t.kind = "translate" => t.r = RetryStart(MaxRetries)
            /\ t.kind = "summarize" =>
                  /\ t.r.max = MaxRetries /\ t.r.i < MaxRetries
                  /\ t.pc = "sumCall" => t.r.waits = t.r.i
                  /\ t.pc = "sumDelay" =>
                        t.r.waits = t.r.i + 1 /\ t.r.i < MaxRetries - 1)
    /\ [][\A t \in tasks : t.pc = "trTranslate" =>
            \/ \E u \in tasks' : u.tid = t.tid /\ u.pc \in {"trTranslate", "detect"}
            \/ EndsNow(t) /\ (messages' = messages => error' = <<HostError>>)]_vars
    /\ [][\A u \in tasks' : u.pc = "trTranslate" =>
            \E t \in tasks : t.tid = u.tid /\ t.pc \in {"trCreate", "trTranslate"}]_vars
    /\ [][\A t \in tasks : t.pc = "trCreate" =>
            \A u \in tasks' : u.tid = t.tid =>
                u.pc \in {"trCreate", "trTranslate"}]_vars

\* a summarize request at its third attempt, after two waits
C27_Witness ==
    \E t \in tasks :
        /\ t.kind = "summarize" /\ t.pc = "sumCall"
        /\ t.r.i = MaxRetries - 1 /\ t.r.waits = MaxRetries - 1

(***************************************************************************)
(* Termination of the actions.                                             *)
(***************************************************************************)
\* request tid is a translate or a summarize in flight
Running(tid) == \E t \in tasks : t.tid = tid /\ t.kind \in Kinds

\* C28: on a host whose every call eventually returns or fails, every
\* translate or summarize that was started eventually finishes, the busy flag
\* of a kind is set only while an action of that kind is in flight, and a
\* flag that is set is eventually cleared, whatever the path the action takes.
C28_ActionsFinish ==
    /\ [](\A kind \in Kinds : isProcessing[kind] => InFlight(kind) # {})
    /\ \A tid \in 1..MaxOps : Running(tid) ~> ~Running(tid)
    /\ \A kind \in Kinds : isProcessing[kind] ~> ~isProcessing[kind]

\* two requests have finished, the last one by exhausting the retries of
\* summarize or by finding no supported source, and neither flag is set
C28_Witness ==
    /\ tasks = {} /\ nextTid > 2
    /\ ~isProcessing["summarize"] /\ ~isProcessing["translate"]
    /\ error \in {SummaryFailed(HostError), SummaryFailed(NetworkLost),
                  NotSupported(targetLanguage)}

(***************************************************************************)
(* The offline and online listeners of the summarizer's monitor.           *)
(***************************************************************************)
\* the summarizer's creation is pending, its monitor installed
SummarizerDownloading ==
    sumInit.pc \in {"create", "ready", "delay"} /\ netListeners

\* C29: while the summarizer downloads, going offline sets the 'download
\* paused' message and coming back online clears it; once the effect has
\* returned, going offline or online changes neither the error nor anything
\* else than the connection.
C29_ListenersOnlyDuringDownload ==
    /\ [][(SummarizerDownloading /\ online /\ ~online')
            => error' = DownloadPaused]_vars
    /\ [][(SummarizerDownloading /\ ~online /\ online')
            => error' = Null]_vars
    /\ [][(sumInit.pc \in {"done", "declined"} /\ online' # online)
            => /\ error' = error
               /\ UNCHANGED <<messages, isProcessing, targetLanguage, inputText,
                              summarizer, apiAvailability, downloadStatus>>]_vars

\* the part of C29 about the download in progress alone
C29_PausedDuringDownload ==
    /\ [][(SummarizerDownloading /\ online /\ ~online')
            => error' = DownloadPaused]_vars
    /\ [][(SummarizerDownloading /\ ~online /\ online')
            => error' = Null]_vars

(***************************************************************************)
(* The download status under two downloads.                                *)
(***************************************************************************)
\* C30: while a download is tracked, the status keeps the kind it tracks and
\* its loaded bytes never decrease, also when the summarizer's and the
\* translator's downloads report progress in turn: a notification of one
\* capability does not overwrite the progress or the kind of the other's.
C30_OneDownloadTracked ==
    [][(downloadStatus.isDownloading /\ downloadStatus'.isDownloading) =>
          /\ downloadStatus'.type = downloadStatus.type
          /\ downloadStatus'.progress >= downloadStatus.progress]_vars

(***************************************************************************)
(* The download flag once the creations are over.                          *)
(***************************************************************************)
\* a creation or a readiness wait of an initialization is in flight
CreationInFlight ==
    \/ sumInit.pc \in {"create", "ready", "delay"}
    \/ trInit.pc \in {"create", "detCreate"}

\* C31: whenever no capability creation or readiness wait is in flight,
\* downloadStatus.isDownloading is false: every path that received a
\* download-progress notification resets the flag before it finishes.
C31_DownloadFlagReset ==
    ~CreationInFlight => ~downloadStatus.isDownloading

(***************************************************************************)
(* Submitting nothing.                                                     *)
(***************************************************************************)
\* C32: a submit of an empty or whitespace-only text sets the error 'Please
\* enter some text to process' and nothing else: the step that sets this
\* error starts from a blank input and leaves the log, the input text and the
\* requests as they were, and no step appends an input message or starts a
\* detection from a blank input.
C32_EmptySubmit ==
    /\ [][(error' = EmptyMessage /\ error # EmptyMessage) =>
            /\ inputText.blank
            /\ UNCHANGED <<messages, inputText, tasks, nextTid, isProcessing,
                           targetLanguage, now, online>>]_vars
    /\ [][nextTid' # nextTid => ~inputText.blank]_vars
    /\ [][(Len(messages') > Len(messages)
             /\ messages'[Len(messages')].type = "input") => ~inputText.blank]_vars

\* a whitespace-only text was submitted after an earlier text went through:
\* the error is set and the text is still in the textarea
C32_Witness ==
    /\ error = EmptyMessage
    /\ inputText.blank /\ inputText.len > 0
    /\ Len(messages) > 1

(***************************************************************************)
(* Derived messages and their bases.                                       *)
(***************************************************************************)
\* the id '<B>' of a derived id '<B>-output', '<B>-translated' or
\* '<B>-summarized'
BaseId(id) == Id(id.base, SubSeq(id.sfx, 1, Len(id.sfx) - 1))

\* C33: every derived message of the log has its base at an earlier
\* position: message M before '<M>-output', message B before '<B>-translated'
\* and '<B>-summarized', however the submits and the actions interleave and
\* in whatever order their detections and invocations complete.
C33_BasePrecedesDerived ==
    \A q \in Idx :
        messages[q].id.sfx # <<>> =>
            \E p \in 1..(q - 1) : messages[p].id = BaseId(messages[q].id)

\* the outputs of two submits stand in the reverse of the order of their
\* inputs: the detection of the later submit completed first
C33_Witness ==
    \E p, q \in Idx :
        /\ p < q
        /\ messages[p].id.sfx = <<"output">> /\ messages[q].id.sfx = <<"output">>
        /\ messages[p].id.base > messages[q].id.base

=============================================================================
